---- MODULE Spec2Model ----
(***************************************************************************)
(* Model of the reward bot: the block cursor lastProcessedBlock, the       *)
(* startup sequence (startBot / initialize), the reward scan               *)
(* (monitorRewardDistributions), the stats publication (sendStatsUpdate /  *)
(* sendUpdate) and the notifier wrapper (sendWithGif).                     *)
(*                                                                         *)
(* The repository holds four copies of the program: three are             *)
(* concatenated in src/bot.js (lines 1-187, 188-365, 366-540) and one is   *)
(* src/unnamed/part_000.  They come in two kinds that differ in            *)
(* sendWithGif, in the amount shown and in startBot:                       *)
(*   "botA": src/bot.js 1-187 and 188-365,                                 *)
(*   "botB": src/bot.js 366-540 and src/unnamed/part_000.                  *)
(* The variable `variant` selects the program that runs; it is chosen in   *)
(* Init and never changes.                                                 *)
(*                                                                         *)
(* Every `await` of the source is a yield point of the single-threaded     *)
(* event loop, so every action below is the code that runs between two     *)
(* awaits of one invocation.                                               *)
(***************************************************************************)
EXTENDS Integers, Sequences, FiniteSets, Bags, TLC

VARIABLES
    variant,            \* which program runs: "botA" or "botB"
    head,               \* height of the chain (environment)
    phase,              \* position of startBot
    timers,             \* the two setInterval calls have run
    immediate,          \* the tasks startBot itself has called and awaited
    exitCode,           \* the argument of process.exit (-1: the process lives)
    startBlock,         \* the height startBot / initialize read
    firstStartBlock,    \* the height read by the first process start (0: none yet)
    lastProcessedBlock, \* let lastProcessedBlock = 0
    inv,                \* the invocations of monitorRewardDistributions in flight (a bag)
    statsInv,           \* the invocations of sendStatsUpdate in flight (a bag)
    msgCount,           \* per transaction: notifications delivered to the chat
    msgText,            \* per transaction: amount shown in the last delivered one
    scanned,            \* the blocks inside the range of a queryFilter call that returned
    lastCycle,          \* how the scan cycle that ended last ended
    aborted,            \* transactions notified by a cycle that sendWithGif's throw ended
    overlapped,         \* some invocation started while another was in flight
    faults,             \* RPC / Telegram failures so far
    restarts,           \* process restarts so far
    ledger,             \* the dedup ledger's keys, oldest first
    evicted             \* the keys compaction has dropped from the ledger

\* the process: startBot's position, its timers, the tasks in flight
procVars == <<phase, timers, immediate, exitCode, statsInv>>

\* what the chat and the chain have seen
histVars == <<msgCount, msgText, scanned, aborted>>

ledgerVars == <<ledger, evicted>>

vars == <<variant, head, phase, timers, immediate, exitCode, startBlock,
          firstStartBlock, lastProcessedBlock, inv, statsInv, msgCount, msgText,
          scanned, lastCycle, aborted, overlapped, faults, restarts,
          ledger, evicted>>

(***************************************************************************)
(* Bounds of the model.                                                    *)
(***************************************************************************)
MaxInFlight == 2
MaxFaults == 2
MaxRestarts == 1
\* msgCount saturates here: MaxCount stands for "MaxCount or more"
MaxCount == 2
\* the ledger's capacity (1000 in the specification), scaled down
LedgerCapacity == 4

(***************************************************************************)
(* The environment: the heights at which the chain is observed and the     *)
(* Transfer events it holds, in block order.                               *)
(***************************************************************************)
Heights == {100, 106, 250}

ChainEvents ==
    << [tx |-> "0xa1", block |-> 103, value |-> 500000],
       [tx |-> "0xb2", block |-> 106, value |-> 0],
       [tx |-> "0xc3", block |-> 250, value |-> 1500000000] >>

Txs == {ChainEvents[k].tx : k \in 1..Len(ChainEvents)}

\* the blocks the model tells apart: the observed heights and the events' blocks
Blocks == Heights \cup {ChainEvents[k].block : k \in 1..Len(ChainEvents)}

EventOf(tx) == CHOOSE e \in {ChainEvents[k] : k \in 1..Len(ChainEvents)} : e.tx = tx

(***************************************************************************)
(* The two kinds of program.                                               *)
(***************************************************************************)
Variants == {"botA", "botB"}

\* sendWithGif of botA logs a failed sendAnimation and returns;
\* that of botB falls back to sendMessage, whose failure it throws.
SwallowsSendFailure(v) == v = "botA"

\* startBot of botA awaits monitorRewardDistributions() right after the two
\* setInterval calls; that of botB does not.
ImmediateScan(v) == v = "botA"

(***************************************************************************)
(* Amount formatting.                                                      *)
(***************************************************************************)
UsdcUnit == 1000000

RECURSIVE DigitsOf(_, _)
\* n written with exactly k decimal digits
DigitsOf(n, k) ==
    IF k = 0 THEN "" ELSE DigitsOf(n \div 10, k - 1) \o ToString(n % 10)

RECURSIVE StripZeros(_, _)
\* the k-digit fraction n without its trailing zeros, one digit at least
StripZeros(n, k) ==
    IF k > 1 /\ n % 10 = 0 THEN StripZeros(n \div 10, k - 1) ELSE DigitsOf(n, k)

\* ethers.formatUnits(value, 6)
FormatUnits(value) ==
    ToString(value \div UsdcUnit) \o "." \o StripZeros(value % UsdcUnit, 6)

\* The hundredths (x).toFixed(2) can pick for x = value / 10^6 held as a
\* double: the nearest; on a decimal tie the double's own error decides.
ToFixedCents(value) ==
    IF value % 10000 = 5000
    THEN {value \div 10000, value \div 10000 + 1}
    ELSE {(value + 5000) \div 10000}

ToFixed2(cents) == ToString(cents \div 100) \o "." \o DigitsOf(cents % 100, 2)

\* the amounts the reward message of variant v can show for an event value
DisplayAmounts(v, value) ==
    IF v = "botA"
    THEN {ToFixed2(c) : c \in ToFixedCents(value)}
    ELSE {FormatUnits(value)}

(***************************************************************************)
(* The scan cycle's decisions.                                             *)
(***************************************************************************)
\* a guard that also scans when no block is new
NeedsScan_AtOrAbove(cur, lpb) == cur >= lpb

\* if (currentBlock > lastProcessedBlock)
NeedsScan(cur, lpb) == cur > lpb

\* a query that asks for the current block only
QueryFrom_Current(lpb, cur) == cur

\* the fromBlock argument of queryFilter
QueryFrom(lpb, cur) == lpb

\* a startup that leaves the cursor at its declared value
InitialCursor_Declared(block) == 0

\* the cursor startup assigns from the height it read:
\* lastProcessedBlock = block (startBot), = await getBlockNumber() (initialize)
InitialCursor(block) == block

\* a call that passes the two block arguments in the other order
QueryRange_Swapped(lpb, cur) == [from |-> cur, to |-> lpb]

\* queryFilter(filter, lastProcessedBlock, currentBlock): the range asked for
QueryRange(lpb, cur) == [from |-> QueryFrom(lpb, cur), to |-> cur]

\* the events queryFilter returns for [from, to]
QueryFilter(from, to) ==
    SelectSeq(ChainEvents, LAMBDA e : from <= e.block /\ e.block <= to)

\* lastProcessedBlock = currentBlock, after the loop
CommitCursor(lpb, cur) == cur

\* a commit that runs although the fetch failed (as from a finally block)
CursorOnFetchFail_Commit(lpb, cur) == IF cur > lpb THEN cur ELSE lpb

\* the cursor after the catch block handled a failed RPC call made by a cycle
\* that read currentBlock = cur (0: none read)
CursorOnFetchFail(lpb, cur) == lpb

\* a commit that runs although sendWithGif threw (as from a finally block)
CursorOnSendFail_Commit(lpb, cur) == cur

\* the cursor after the catch block handled a failure thrown by sendWithGif
\* in a cycle that read currentBlock = cur
CursorOnSendFail(lpb, cur) == lpb

\* a scan whose error is not caught: the unhandled rejection ends the process
PhaseOnScanFail_Exit(p) == "exited"

\* startBot's position after the scan's catch block handled an error
PhaseOnScanFail(p) == p

\* a startup whose catch block logs and goes on to launch the bot
StartupFailPhase_GoOn == "launch"

\* startBot's position after its catch block (or initialize's): process.exit(1)
StartupFailPhase == "exited"

\* an invocation that has run up to `await provider.getBlockNumber()`;
\* boot: the one startBot itself called and awaits
Started == [pc |-> "getBlock", cur |-> 0, from |-> 0, to |-> 0, evs |-> <<>>,
            missed |-> FALSE, boot |-> FALSE]

\* an invocation of sendStatsUpdate that has run up to `await Promise.all(...)`
StatsStarted == [pc |-> "views", total |-> "pending", balance |-> "pending",
                 boot |-> FALSE]

NoCycle == [outcome |-> "none", from |-> 0, cur |-> 0, missed |-> FALSE]

\* Invocations have no identity: the ones in flight are a bag of records.
Running == BagToSet(inv)

InFlight == BagCardinality(inv)

StatsRunning == BagToSet(statsInv)

StatsInFlight == BagCardinality(statsInv)

\* how many invocations in flight are at one of the positions pcs
CountAt(bag, pcs) ==
    BagCardinality([r \in {x \in BagToSet(bag) : x.pc \in pcs} |-> bag[r]])

Without(r) == inv (-) SetToBag({r})

StatsWithout(r) == statsInv (-) SetToBag({r})

\* the transactions of the events a cycle has handled before the one at the
\* head of r.evs
HandledBefore(r) ==
    LET all == QueryFilter(r.from, r.to) IN
    {all[k].tx : k \in 1..(Len(all) - Len(r.evs))}

(***************************************************************************)
(* The dedup ledger: a set of event keys in insertion order, compacted to  *)
(* its most recent half when it grows past its capacity.                   *)
(***************************************************************************)
LedgerKeys == {"k1", "k2", "k3", "k4", "k5", "k6"}

KeysOf(seq) == {seq[k] : k \in 1..Len(seq)}

\* a compaction that keeps the oldest half
Compact_KeepOldest(seq) ==
    IF Len(seq) > LedgerCapacity
    THEN SubSeq(seq, 1, LedgerCapacity \div 2)
    ELSE seq

\* once the size exceeds the capacity, keep the capacity / 2 newest keys
Compact(seq) ==
    IF Len(seq) > LedgerCapacity
    THEN SubSeq(seq, Len(seq) - (LedgerCapacity \div 2) + 1, Len(seq))
    ELSE seq

\* record a key: a key already present keeps its place
Record(seq, k) == IF k \in KeysOf(seq) THEN seq ELSE Compact(Append(seq, k))

(***************************************************************************)
(* Initial state: the module-level declarations, before startBot().        *)
(***************************************************************************)
Init ==
    /\ variant \in Variants
    /\ head = 100
    /\ phase = "boot"
    /\ timers = FALSE
    /\ immediate = {}
    /\ exitCode = -1
    /\ startBlock = 0
    /\ firstStartBlock = 0
    /\ lastProcessedBlock = 0
    /\ inv = EmptyBag
    /\ statsInv = EmptyBag
    /\ msgCount = [t \in Txs |-> 0]
    /\ msgText = [t \in Txs |-> ""]
    /\ scanned = {}
    /\ lastCycle = NoCycle
    /\ aborted = {}
    /\ overlapped = FALSE
    /\ faults = 0
    /\ restarts = 0
    /\ ledger = <<>>
    /\ evicted = {}

(***************************************************************************)
(* Environment: blocks are mined.                                          *)
(***************************************************************************)
AdvanceChain ==
    /\ \E h \in Heights : h > head /\ head' = h
    /\ UNCHANGED <<variant, procVars, startBlock, firstStartBlock,
                   lastProcessedBlock, inv, histVars, lastCycle, overlapped, faults, restarts, ledgerVars>>

(***************************************************************************)
(* startBot / initialize.                                                  *)
(***************************************************************************)
\* the first provider.getBlockNumber() resolves
StartGetBlockOk ==
    /\ phase = "boot"
    /\ startBlock' = head
    /\ firstStartBlock' = IF firstStartBlock = 0 THEN head ELSE firstStartBlock
    \* initialize(): lastProcessedBlock = await provider.getBlockNumber()
    \* startBot() of botA keeps it in the local `block`
    /\ lastProcessedBlock' =
          IF ImmediateScan(variant) THEN lastProcessedBlock ELSE InitialCursor(head)
    /\ phase' = "loadTotal"
    /\ UNCHANGED <<variant, head, timers, immediate, exitCode, statsInv, inv,
                   histVars, lastCycle, overlapped, faults, restarts,
                   ledgerVars>>

\* totalDistributed() resolves
LoadTotalOk ==
    /\ phase = "loadTotal"
    /\ IF ImmediateScan(variant)
       THEN \* lastProcessedBlock = block; setInterval x 2;
            \* await monitorRewardDistributions() runs up to its first await
            /\ lastProcessedBlock' = InitialCursor(startBlock)
            /\ timers' = TRUE
            /\ phase' = "firstScan"
            /\ immediate' = immediate \cup {"scan"}
            /\ inv' = inv (+) SetToBag({[Started EXCEPT !.boot = TRUE]})
       ELSE /\ phase' = "launch"
            /\ UNCHANGED <<lastProcessedBlock, timers, immediate, inv>>
    /\ UNCHANGED <<variant, head, exitCode, statsInv, startBlock, firstStartBlock,
                   histVars, lastCycle, overlapped, faults, restarts,
                   ledgerVars>>

\* bot.launch() resolves (botB): await sendStatsUpdate() runs up to its
\* first await
LaunchOk ==
    /\ phase = "launch"
    /\ phase' = "firstStats"
    /\ immediate' = immediate \cup {"stats"}
    /\ statsInv' = statsInv (+) SetToBag({[StatsStarted EXCEPT !.boot = TRUE]})
    /\ UNCHANGED <<variant, head, timers, exitCode, startBlock, firstStartBlock,
                   lastProcessedBlock, inv, histVars, lastCycle, overlapped, faults, restarts, ledgerVars>>

\* getBlockNumber, totalDistributed or bot.launch rejects: the catch block
\* logs and calls process.exit(1)
StartupFail ==
    /\ phase \in {"boot", "loadTotal", "launch"}
    /\ phase' = StartupFailPhase
    /\ exitCode' = IF phase' = "exited" THEN 1 ELSE exitCode
    /\ UNCHANGED <<variant, head, timers, immediate, statsInv, startBlock,
                   firstStartBlock, lastProcessedBlock, inv, histVars, lastCycle,
                   overlapped, faults, restarts, ledgerVars>>

(***************************************************************************)
(* monitorRewardDistributions.                                             *)
(***************************************************************************)
\* the REWARD_CHECK_INTERVAL timer fires: the invocation runs to
\* `await provider.getBlockNumber()`
TimerFire ==
    /\ timers
    /\ phase # "exited"
    /\ InFlight + StatsInFlight < MaxInFlight
    /\ inv' = inv (+) SetToBag({Started})
    /\ overlapped' = (overlapped \/ InFlight > 0)
    /\ UNCHANGED <<variant, head, procVars, startBlock, firstStartBlock,
                   lastProcessedBlock, histVars, lastCycle, faults,
                   restarts, ledgerVars>>

\* the invocation r returns.  The one startBot awaits (botA) resumes
\* startBot, which calls sendStatsUpdate(); that runs up to its first await.
\* caught: r returns from its catch block.
ScanReturns(r, caught) ==
    IF r.boot
    THEN /\ phase' = IF caught THEN PhaseOnScanFail("firstStats") ELSE "firstStats"
         /\ immediate' = immediate \cup {"stats"}
         /\ statsInv' = statsInv (+) SetToBag({[StatsStarted EXCEPT !.boot = TRUE]})
         /\ UNCHANGED <<timers, exitCode>>
    ELSE /\ phase' = IF caught THEN PhaseOnScanFail(phase) ELSE phase
         /\ UNCHANGED <<timers, immediate, exitCode, statsInv>>

\* getBlockNumber resolves with the height of the chain
GetBlockOk ==
    \E r \in Running :
        /\ r.pc = "getBlock"
        /\ IF NeedsScan(head, lastProcessedBlock)
           THEN \* queryFilter(filter, lastProcessedBlock, currentBlock) is called
                /\ inv' = Without(r) (+) SetToBag({
                              [r EXCEPT !.pc = "query", !.cur = head,
                                  !.from = QueryRange(lastProcessedBlock, head).from,
                                  !.to = QueryRange(lastProcessedBlock, head).to]})
                /\ UNCHANGED <<lastCycle, procVars>>
           ELSE /\ inv' = Without(r)
                /\ lastCycle' = [NoCycle EXCEPT !.outcome = "noop", !.cur = head]
                /\ ScanReturns(r, FALSE)
        /\ UNCHANGED <<variant, head, startBlock, firstStartBlock,
                       lastProcessedBlock, histVars, overlapped,
                       faults, restarts, ledgerVars>>

\* getBlockNumber rejects: the catch block logs
GetBlockFail ==
    \E r \in Running :
        /\ r.pc = "getBlock"
        /\ faults < MaxFaults
        /\ faults' = faults + 1
        /\ inv' = Without(r)
        /\ lastProcessedBlock' = CursorOnFetchFail(lastProcessedBlock, 0)
        /\ lastCycle' = [NoCycle EXCEPT !.outcome = "fetchfail",
                                         !.from = lastProcessedBlock]
        /\ ScanReturns(r, TRUE)
        /\ UNCHANGED <<variant, head, startBlock, firstStartBlock, histVars,
                       overlapped, restarts, ledgerVars>>

\* what follows the handling of the event at the head of r.evs: the next
\* iteration's sendWithGif, or the commit after the loop
Proceed(r, missedNow) ==
    IF Len(r.evs) > 1
    THEN /\ inv' = Without(r) (+) SetToBag({[r EXCEPT !.pc = "send",
                                                        !.evs = Tail(r.evs),
                                                        !.missed = missedNow]})
         /\ UNCHANGED <<lastProcessedBlock, lastCycle, procVars>>
    ELSE /\ inv' = Without(r)
         /\ lastProcessedBlock' = CommitCursor(lastProcessedBlock, r.cur)
         /\ lastCycle' = [NoCycle EXCEPT !.outcome = "committed",
                                          !.missed = missedNow]
         /\ ScanReturns(r, FALSE)

\* queryFilter resolves
QueryOk ==
    \E r \in Running :
        /\ r.pc = "query"
        /\ scanned' = scanned \cup {b \in Blocks : r.from <= b /\ b <= r.to}
        /\ LET evs == QueryFilter(r.from, r.to) IN
            IF evs = <<>>
            THEN /\ inv' = Without(r)
                 /\ lastProcessedBlock' = CommitCursor(lastProcessedBlock, r.cur)
                 /\ lastCycle' = [NoCycle EXCEPT !.outcome = "committed"]
                 /\ ScanReturns(r, FALSE)
            ELSE /\ inv' = Without(r) (+) SetToBag({[r EXCEPT !.pc = "send",
                                                                !.evs = evs]})
                 /\ UNCHANGED <<lastProcessedBlock, lastCycle, procVars>>
        /\ UNCHANGED <<variant, head, startBlock, firstStartBlock, msgCount,
                       msgText, aborted, overlapped, faults, restarts,
                       ledgerVars>>

\* queryFilter rejects: the catch block logs
QueryFail ==
    \E r \in Running :
        /\ r.pc = "query"
        /\ faults < MaxFaults
        /\ faults' = faults + 1
        /\ inv' = Without(r)
        /\ lastProcessedBlock' = CursorOnFetchFail(lastProcessedBlock, r.cur)
        /\ lastCycle' = [NoCycle EXCEPT !.outcome = "fetchfail", !.from = r.from]
        /\ ScanReturns(r, TRUE)
        /\ UNCHANGED <<variant, head, startBlock, firstStartBlock, histVars,
                       overlapped, restarts, ledgerVars>>

\* the message of the event at the head of r.evs reaches the chat
Deliver(r) ==
    LET e == Head(r.evs) IN
    /\ msgCount' = [msgCount EXCEPT ![e.tx] = IF @ < MaxCount THEN @ + 1 ELSE @]
    /\ \E a \in DisplayAmounts(variant, e.value) :
          msgText' = [msgText EXCEPT ![e.tx] = a]

\* sendAnimation resolves
SendOk ==
    \E r \in Running :
        /\ r.pc = "send"
        /\ Deliver(r)
        /\ Proceed(r, r.missed)
        /\ UNCHANGED <<variant, head, startBlock, firstStartBlock, scanned,
                       aborted, overlapped, faults, restarts,
                       ledgerVars>>

\* sendAnimation rejects
SendFail ==
    \E r \in Running :
        /\ r.pc = "send"
        /\ faults < MaxFaults
        /\ faults' = faults + 1
        /\ IF SwallowsSendFailure(variant)
           THEN \* catch: console.error; the loop goes on
                Proceed(r, TRUE)
           ELSE \* catch: await bot.telegram.sendMessage(...)
                /\ inv' = Without(r) (+) SetToBag({[r EXCEPT !.pc = "fallback"]})
                /\ UNCHANGED <<lastProcessedBlock, lastCycle, procVars>>
        /\ UNCHANGED <<variant, head, startBlock, firstStartBlock, histVars,
                       overlapped, restarts, ledgerVars>>

\* the fallback sendMessage resolves (botB)
FallbackOk ==
    \E r \in Running :
        /\ r.pc = "fallback"
        /\ Deliver(r)
        /\ Proceed(r, r.missed)
        /\ UNCHANGED <<variant, head, startBlock, firstStartBlock, scanned,
                       aborted, overlapped, faults, restarts,
                       ledgerVars>>

\* the fallback sendMessage rejects: sendWithGif throws, the scan's catch logs
FallbackFail ==
    \E r \in Running :
        /\ r.pc = "fallback"
        /\ faults < MaxFaults
        /\ faults' = faults + 1
        /\ inv' = Without(r)
        /\ lastProcessedBlock' = CursorOnSendFail(lastProcessedBlock, r.cur)
        /\ lastCycle' = [NoCycle EXCEPT !.outcome = "sendfail", !.from = r.from,
                                         !.missed = TRUE]
        /\ aborted' = aborted \cup HandledBefore(r)
        /\ ScanReturns(r, TRUE)
        /\ UNCHANGED <<variant, head, startBlock, firstStartBlock, msgCount,
                       msgText, scanned, overlapped, restarts,
                       ledgerVars>>

(***************************************************************************)
(* sendStatsUpdate / sendUpdate.                                           *)
(***************************************************************************)
\* the UPDATE_INTERVAL timer fires: the invocation runs to
\* `await Promise.all([...])`
StatsTimerFire ==
    /\ timers
    /\ phase # "exited"
    /\ InFlight + StatsInFlight < MaxInFlight
    /\ statsInv' = statsInv (+) SetToBag({StatsStarted})
    /\ UNCHANGED <<variant, head, phase, timers, immediate, exitCode, startBlock,
                   firstStartBlock, lastProcessedBlock, inv, histVars, lastCycle,
                   overlapped, faults, restarts, ledgerVars>>

\* the invocation r returns; the one startBot awaits resumes startBot:
\* botB goes on to its two setInterval calls, botA has nothing left to do
StatsReturns(r) ==
    IF r.boot
    THEN /\ phase' = "running"
         /\ timers' = TRUE
    ELSE UNCHANGED <<phase, timers>>

\* one of the two view calls resolves; once both have, the message is built
\* and sendWithGif runs up to `await sendAnimation`
StatsViewOk ==
    \E r \in StatsRunning, call \in {"total", "balance"} :
        /\ r.pc = "views"
        /\ r[call] = "pending"
        /\ LET r2 == [r EXCEPT ![call] = "ok"] IN
           statsInv' = StatsWithout(r) (+) SetToBag({
               IF r2.total = "ok" /\ r2.balance = "ok"
               THEN [r2 EXCEPT !.pc = "send"]
               ELSE r2})
        /\ UNCHANGED <<variant, head, phase, timers, immediate, exitCode,
                       startBlock, firstStartBlock, lastProcessedBlock, inv,
                       histVars, lastCycle, overlapped, faults,
                       restarts, ledgerVars>>

\* one of the two view calls rejects: Promise.all rejects, the catch block
\* logs and sendStatsUpdate returns
StatsViewFail ==
    \E r \in StatsRunning, call \in {"total", "balance"} :
        /\ r.pc = "views"
        /\ r[call] = "pending"
        /\ faults < MaxFaults
        /\ faults' = faults + 1
        /\ statsInv' = StatsWithout(r)
        /\ StatsReturns(r)
        /\ UNCHANGED <<variant, head, immediate, exitCode, startBlock,
                       firstStartBlock, lastProcessedBlock, inv, histVars,
                       lastCycle, overlapped, restarts, ledgerVars>>

\* sendAnimation resolves: the stats message is in the chat
StatsSendOk ==
    \E r \in StatsRunning :
        /\ r.pc = "send"
        /\ statsInv' = StatsWithout(r)
        /\ StatsReturns(r)
        /\ UNCHANGED <<variant, head, immediate, exitCode, startBlock,
                       firstStartBlock, lastProcessedBlock, inv, histVars,
                       lastCycle, overlapped, faults, restarts, ledgerVars>>

\* sendAnimation rejects
StatsSendFail ==
    \E r \in StatsRunning :
        /\ r.pc = "send"
        /\ faults < MaxFaults
        /\ faults' = faults + 1
        /\ IF SwallowsSendFailure(variant)
           THEN \* catch: console.error; sendStatsUpdate returns
                /\ statsInv' = StatsWithout(r)
                /\ StatsReturns(r)
           ELSE \* catch: await bot.telegram.sendMessage(...)
                /\ statsInv' = StatsWithout(r) (+)
                                  SetToBag({[r EXCEPT !.pc = "fallback"]})
                /\ UNCHANGED <<phase, timers>>
        /\ UNCHANGED <<variant, head, immediate, exitCode, startBlock,
                       firstStartBlock, lastProcessedBlock, inv, histVars,
                       lastCycle, overlapped, restarts, ledgerVars>>

\* the fallback sendMessage resolves (botB)
StatsFallbackOk ==
    \E r \in StatsRunning :
        /\ r.pc = "fallback"
        /\ statsInv' = StatsWithout(r)
        /\ StatsReturns(r)
        /\ UNCHANGED <<variant, head, immediate, exitCode, startBlock,
                       firstStartBlock, lastProcessedBlock, inv, histVars,
                       lastCycle, overlapped, faults, restarts, ledgerVars>>

\* the fallback sendMessage rejects: sendWithGif throws, the catch block logs
StatsFallbackFail ==
    \E r \in StatsRunning :
        /\ r.pc = "fallback"
        /\ faults < MaxFaults
        /\ faults' = faults + 1
        /\ statsInv' = StatsWithout(r)
        /\ StatsReturns(r)
        /\ UNCHANGED <<variant, head, immediate, exitCode, startBlock,
                       firstStartBlock, lastProcessedBlock, inv, histVars,
                       lastCycle, overlapped, restarts, ledgerVars>>

(***************************************************************************)
(* The process ends (SIGTERM / SIGINT handler, or process.exit(1)) and is  *)
(* started again: the module-level state is declared anew.                 *)
(***************************************************************************)
Restart ==
    /\ phase # "boot"
    /\ restarts < MaxRestarts
    /\ restarts' = restarts + 1
    /\ phase' = "boot"
    /\ timers' = FALSE
    /\ immediate' = {}
    /\ exitCode' = -1
    /\ startBlock' = 0
    /\ lastProcessedBlock' = 0
    /\ inv' = EmptyBag
    /\ statsInv' = EmptyBag
    /\ lastCycle' = NoCycle
    /\ overlapped' = FALSE
    /\ UNCHANGED <<variant, head, firstStartBlock, histVars, faults, ledgerVars>>

Next ==
    \/ AdvanceChain
    \/ StartGetBlockOk
    \/ LoadTotalOk
    \/ LaunchOk
    \/ StartupFail
    \/ TimerFire
    \/ GetBlockOk
    \/ GetBlockFail
    \/ QueryOk
    \/ QueryFail
    \/ SendOk
    \/ SendFail
    \/ FallbackOk
    \/ FallbackFail
    \/ StatsTimerFire
    \/ StatsViewOk
    \/ StatsViewFail
    \/ StatsSendOk
    \/ StatsSendFail
    \/ StatsFallbackOk
    \/ StatsFallbackFail

Spec == Init /\ [][Next]_vars

NextRestart == Next \/ Restart

SpecRestart == Init /\ [][NextRestart]_vars

(***************************************************************************)
(* The ledger on its own: keys are recorded one after the other.           *)
(***************************************************************************)
LedgerRecord ==
    /\ \E k \in LedgerKeys :
          /\ ledger' = Record(ledger, k)
          /\ evicted' = (evicted \cup (KeysOf(ledger) \ KeysOf(ledger'))) \ {k}
    /\ UNCHANGED <<variant, head, procVars, startBlock, firstStartBlock,
                   lastProcessedBlock, inv, histVars, lastCycle, overlapped, faults, restarts>>

NextLedger == LedgerRecord

SpecLedger == Init /\ [][NextLedger]_vars

(***************************************************************************)
(* Properties.                                                             *)
(***************************************************************************)

\* C1: in every execution, overlapping scan invocations included, the value
\* of lastProcessedBlock never decreases from one state to the next.
C1_CursorNeverDecreases ==
    [][lastProcessedBlock' >= lastProcessedBlock]_vars

\* C2: a Transfer event returned by the queries of two scan cycles with
\* overlapping block ranges is notified exactly once in total.
C2_NotifiedOnce ==
    \A t \in Txs : msgCount[t] <= 1

\* C3: a scan cycle in which getBlockNumber or queryFilter fails leaves
\* lastProcessedBlock unchanged (in every interleaving), and the scan cycle
\* that follows it queries from the from-block of the failed one (cycles
\* following one another, that is, as long as no invocations overlapped).
C3_FetchFailureKeepsCursor ==
    /\ [][(/\ CountAt(inv', {"getBlock", "query"}) < CountAt(inv, {"getBlock", "query"})
            /\ faults' = faults + 1)
           => lastProcessedBlock' = lastProcessedBlock]_vars
    /\ [](\A r \in Running :
            (/\ r.pc = "query"
             /\ lastCycle.outcome = "fetchfail"
             /\ ~overlapped)
            => r.from = lastCycle.from)

\* C3 witness: after a failed fetch the next cycle has issued its query, from
\* the cursor the failed cycle left in place, with blocks still to scan.
C3_Witness ==
    \E r \in Running :
        /\ r.pc = "query"
        /\ lastCycle.outcome = "fetchfail"
        /\ ~overlapped
        /\ r.from = lastCycle.from
        /\ r.from = lastProcessedBlock
        /\ r.cur > r.from

\* C4: a scan cycle advances lastProcessedBlock only if the notification of
\* every event it fetched was delivered.
C4_CommitOnlyIfAllDelivered ==
    lastCycle.outcome = "committed" => ~lastCycle.missed

\* C5: blocks mined after the bot first started are scanned even when the
\* process is restarted between scan cycles: the cursor never passes a block
\* above the first start height that no returned query covered.
C5_NoBlockSkippedAcrossRestart ==
    \A b \in Blocks :
        (firstStartBlock < b /\ b < lastProcessedBlock) => b \in scanned

\* C6: no notification is sent for an event whose amount is below the
\* minimum threshold (the smallest threshold, 0.000001 USDC, is 1 raw unit).
C6_BelowThresholdNotNotified ==
    LET minThreshold == 1 IN
    \A t \in Txs : EventOf(t).value < minThreshold => msgCount[t] = 0

\* C7: no notification is sent for an event whose amount exceeds the sanity
\* ceiling of 1000 units.
C7_AboveCeilingNotNotified ==
    LET ceiling == 1000 * UsdcUnit IN
    \A t \in Txs : EventOf(t).value > ceiling => msgCount[t] = 0

\* C8: every event query starts at max(lastProcessedBlock, currentBlock -
\* LOOKBACK_LIMIT), so its range never spans more than LOOKBACK_LIMIT blocks
\* (100, the smallest limit).
C8_QueryWithinLookback ==
    LET lookbackLimit == 100 IN
    \A r \in Running :
        r.pc = "query" => r.to - r.from <= lookbackLimit

\* C9: a scan cycle that reads a currentBlock not greater than
\* lastProcessedBlock issues no event query, sends no notification and leaves
\* lastProcessedBlock unchanged.  (The step is the one in which a pending
\* getBlockNumber resolves; the currentBlock it reads is head.)
C9_NoNewBlockNoScan ==
    [][(/\ CountAt(inv', {"getBlock"}) < CountAt(inv, {"getBlock"})
        /\ faults' = faults
        /\ restarts' = restarts
        /\ head <= lastProcessedBlock)
       => /\ CountAt(inv', {"query"}) = CountAt(inv, {"query"})
          /\ InFlight' = InFlight - 1
          /\ lastCycle'.outcome = "noop"
          /\ lastProcessedBlock' = lastProcessedBlock
          /\ msgCount' = msgCount
          /\ msgText' = msgText
          /\ scanned' = scanned]_vars

\* C9 witness: a cycle has just read a currentBlock that is not above the
\* cursor, while the process is running with an assigned cursor.
C9_Witness ==
    /\ lastCycle.outcome = "noop"
    /\ lastCycle.cur <= lastProcessedBlock
    /\ lastProcessedBlock >= startBlock
    /\ startBlock > 0

\* C10: the amount shown for a notified event is its raw value divided by
\* 10^6 with two decimals; the event of raw value 500000 is shown as 0.50.
C10_TwoDecimalAmount ==
    \A t \in Txs :
        msgCount[t] > 0
        => /\ msgText[t] \in {ToFixed2(c) : c \in ToFixedCents(EventOf(t).value)}
           /\ (EventOf(t).value = 500000 => msgText[t] = "0.50")

\* C11: a failed send is never propagated out of sendWithGif into the scan
\* cycle: no scan cycle ends in its catch block because sendWithGif threw.
C11_SendFailureNotPropagated ==
    lastCycle.outcome # "sendfail"

\* C12: whenever sendAnimation fails, sendWithGif then attempts to send the
\* same text with sendMessage.  (The step is the one in which a Telegram or
\* RPC call rejects and which is not the rejection of getBlockNumber,
\* queryFilter, a view call or sendMessage: a pending sendAnimation rejected.)
C12_FallbackToText ==
    [][(/\ faults' = faults + 1
        /\ CountAt(inv', {"getBlock"}) >= CountAt(inv, {"getBlock"})
        /\ CountAt(inv', {"query"}) >= CountAt(inv, {"query"})
        /\ CountAt(inv', {"fallback"}) >= CountAt(inv, {"fallback"})
        /\ CountAt(statsInv', {"views"}) >= CountAt(statsInv, {"views"})
        /\ CountAt(statsInv', {"fallback"}) >= CountAt(statsInv, {"fallback"}))
       => CountAt(inv', {"fallback"}) + CountAt(statsInv', {"fallback"})
            = CountAt(inv, {"fallback"}) + CountAt(statsInv, {"fallback"}) + 1]_vars

\* C13: on process start one reward scan and one stats publication each run
\* once immediately, besides the two timers being scheduled: once the timers
\* are set startBot has called the scan itself, and once startBot has
\* finished it has called both tasks itself.
C13_BothTasksRunImmediately ==
    /\ timers => "scan" \in immediate
    /\ phase = "running" => immediate = {"scan", "stats"}

\* C14: once a scan invocation has started, no step of any other task
\* invocation runs until it has completed: while a scan is in flight no
\* further scan starts and no stats invocation starts or takes a step.
C14_ScanRunsToCompletion ==
    [][InFlight >= 1
       => /\ InFlight' <= InFlight
          /\ (statsInv' # statsInv => inv' # inv)]_vars

\* C15: a scan cycle that fails (RPC or notifier error) never terminates the
\* process and never cancels the timer: after it the process lives, the
\* timers are set and the scan timer can fire (whenever the model's bound on
\* invocations in flight leaves room for one).
C15_ScanFailureKeepsTimer ==
    lastCycle.outcome \in {"fetchfail", "sendfail"}
    => /\ phase # "exited"
       /\ exitCode = -1
       /\ timers
       /\ (InFlight + StatsInFlight < MaxInFlight => ENABLED TimerFire)

\* C15 witness: a cycle failed and, with no invocation overlapping another,
\* the timer has since started the next scan, which has issued its query.
C15_Witness ==
    /\ lastCycle.outcome \in {"fetchfail", "sendfail"}
    /\ ~overlapped
    /\ phase = "running"
    /\ \E r \in Running : r.pc = "query" /\ ~r.boot

\* C16: if the getBlockNumber call of the startup fails, the process exits
\* with status 1, and in the exited process no timer is set, no task is in
\* flight and none ever starts.
C16_StartupFailureExits ==
    /\ [][(/\ phase = "boot"
           /\ phase' # "boot"
           /\ startBlock' = 0)
          => (phase' = "exited" /\ exitCode' = 1)]_vars
    /\ [](phase = "exited"
          => /\ ~timers
             /\ InFlight = 0
             /\ StatsInFlight = 0
             /\ ~ENABLED TimerFire
             /\ ~ENABLED StatsTimerFire)
    /\ [][(phase = "exited" /\ restarts' = restarts)
          => (phase' = "exited" /\ inv' = inv /\ statsInv' = statsInv)]_vars

\* C16 witness: the process has exited with status 1 before any height was
\* read.
C16_Witness ==
    /\ phase = "exited"
    /\ exitCode = 1
    /\ startBlock = 0
    /\ restarts = 0

\* C17: in a stats cycle in which a view call fails while totalDistributed
\* has succeeded, a stats message is still published: the step in which
\* balanceOf rejects goes on to send the message.
C17_PartialStatsPublished ==
    [][\A r \in StatsRunning :
          (/\ r.pc = "views"
           /\ r.total = "ok"
           /\ CopiesIn(r, statsInv') < CopiesIn(r, statsInv)
           /\ faults' = faults + 1)
          => CountAt(statsInv', {"send"}) = CountAt(statsInv, {"send"}) + 1]_vars

\* C18: once the ledger's size exceeds its capacity C, compaction brings it
\* back to at most C and each of the C / 2 most recently inserted keys is
\* still present.
C18_CompactionKeepsRecent ==
    /\ [](Len(ledger) <= LedgerCapacity)
    /\ [][(Len(ledger) = LedgerCapacity /\ ledger' # ledger)
          => \E k \in LedgerKeys \ KeysOf(ledger) :
                LET full == Append(ledger, k) IN
                \A i \in (Len(full) - (LedgerCapacity \div 2) + 1)..Len(full) :
                    full[i] \in KeysOf(ledger')]_vars

\* C18 witness: a compaction has just run: keys were dropped and the ledger
\* holds half its capacity.
C18_Witness ==
    /\ evicted # {}
    /\ Len(ledger) = LedgerCapacity \div 2

\* C19: every event query has from <= to, in every interleaving.
C19_QueryFromAtMostTo ==
    \A r \in Running : r.pc = "query" => r.from <= r.to

\* C19 witness: a query is pending that was issued while invocations
\* overlapped, and another invocation has moved the cursor since.
C19_Witness ==
    \E r \in Running :
        /\ r.pc = "query"
        /\ overlapped
        /\ InFlight > 1
        /\ lastProcessedBlock # r.from
        /\ r.from < r.to

\* C20: a scan cycle that an error ends after it has notified some of its
\* events does not advance the cursor (a), the cycle that follows it queries
\* from the same block (b, for cycles that do not overlap), and a cycle that
\* completes over a window holding those events has notified them again (c).
C20_AbortedCycleRenotifies ==
    /\ [][(/\ CountAt(inv', {"fallback"}) < CountAt(inv, {"fallback"})
           /\ faults' = faults + 1)
          => lastProcessedBlock' = lastProcessedBlock]_vars
    /\ [](\A r \in Running :
            (/\ r.pc = "query"
             /\ lastCycle.outcome = "sendfail"
             /\ ~overlapped)
            => r.from = lastCycle.from)
    /\ [][\A r \in Running :
            (/\ r.pc # "getBlock"
             /\ CopiesIn(r, inv') < CopiesIn(r, inv)
             /\ InFlight' = InFlight - 1
             /\ faults' = faults
             /\ restarts' = restarts)
            => \A t \in aborted :
                  (r.from <= EventOf(t).block /\ EventOf(t).block <= r.to)
                  => msgCount'[t] >= 2]_vars

\* C20 witness: a cycle was ended by sendWithGif's throw after it had
\* notified an event, and a later cycle has committed past that event's
\* block, the event now notified twice.
C20_Witness ==
    \E t \in aborted :
        /\ msgCount[t] >= 2
        /\ lastCycle.outcome = "committed"
        /\ lastProcessedBlock >= EventOf(t).block
        /\ ~overlapped

\* C21: every block b with startBlock < b <= lastProcessedBlock lies inside
\* the range of an event query that returned: the cursor never skips a
\* block, also when scan invocations overlap and commit out of order.
C21_CursorSkipsNoBlock ==
    \A b \in Blocks :
        (startBlock < b /\ b <= lastProcessedBlock) => b \in scanned

\* C21 witness: invocations overlapped and committed out of order: with no
\* failure and nothing in flight the cursor stands below a block a returned
\* query covered, and above the start height.
C21_Witness ==
    /\ overlapped
    /\ faults = 0
    /\ InFlight = 0
    /\ lastCycle.outcome = "committed"
    /\ startBlock > 0
    /\ lastProcessedBlock > startBlock
    /\ \E b \in scanned : b > lastProcessedBlock

\* C22: every event query has a from-block at or above the height read at
\* startup, which has been read by then, and no event of a block below that
\* height is ever notified.
C22_QueryFromAtLeastStart ==
    /\ \A r \in Running :
          r.pc = "query" => (startBlock > 0 /\ r.from >= startBlock)
    /\ \A t \in Txs :
          msgCount[t] > 0 => (startBlock > 0 /\ EventOf(t).block >= startBlock)

\* C22 witness: the process started above the block of an event, a cycle
\* that queried from the start height has committed, and that event is not
\* notified.
C22_Witness ==
    \E t \in Txs :
        /\ startBlock > EventOf(t).block
        /\ msgCount[t] = 0
        /\ lastCycle.outcome = "committed"
        /\ lastProcessedBlock > startBlock
        /\ \E u \in Txs : msgCount[u] > 0

====
